---- MODULE Spec2Model ----
(***************************************************************************)
(* A model of qvibe-recorder's command protocol (qvibe/interface.py): the  *)
(* shared device registry, the per-connection CommandProtocol, the         *)
(* SocketHandler that forwards a device's asynchronous data to the         *)
(* connection, and the text conversions (split on '|', json.loads,         *)
(* json.dumps, the length prefix) the protocol is built from.              *)
(*                                                                         *)
(* Text.  A text (a line, a token, a JSON document) is a sequence of       *)
(* atoms.  An atom is a TLA+ string standing for the characters it holds;  *)
(* the atom "|" is the pipe character and no other atom holds a pipe.  The *)
(* number of characters of a text is the sum of the lengths of its atoms.  *)
(* InvalidUtf8 is an atom standing for bytes that are not valid UTF-8.     *)
(*                                                                         *)
(* JSON values are tagged tuples: <<"null">>, <<"num", n>>, <<"str", p>>,  *)
(* <<"arr", seq>>, <<"obj", pairs>>.  The characters of a string are kept  *)
(* as the sequence p of its maximal pipe-free pieces ("x|y" is             *)
(* <<"x", "y">>, "a" is <<"a">>); pairs is the sequence of <<key, value>>  *)
(* in the insertion order of the Python dict, key being a pipe-free        *)
(* string.                                                                 *)
(*                                                                         *)
(* The module also models the mock I2C transport (qvibe/i2cio.py): mockIO  *)
(* with its write log, its queue of pre-seeded answers and its optional    *)
(* data provider, and MockIoDataProvider, which plays a waveform of float  *)
(* samples back as FIFO blocks of big-endian 16-bit values.  Spec is the   *)
(* command protocol, SpecIo the mock transport; each leaves the other's    *)
(* variables alone.                                                        *)
(*                                                                         *)
(* Floats.  A sample Fin(q) is the float q / (4 * 32768), so that its      *)
(* product with 32768 is q / 4 exactly; Huge, Inf and NaN are floats whose  *)
(* product with 32768 is not a finite number.  Waveforms are lists with at *)
(* least one sample.                                                       *)
(***************************************************************************)
EXTENDS Integers, Sequences, FiniteSets, TLC

VARIABLES
    status,     \* per connection: "new", "built", "connected", "closed"
    state,      \* per device: Device.state, a JSON value
    selftest,   \* per device: Device.self_test_results, a JSON value
    chain,      \* per device: what the handler chain's accept last received
    wrote,      \* per connection: a line was passed to its sendLine
    escaped,    \* per connection: a failure left lineReceived uncaught
    last,       \* the operation that produced this state: its inputs, the
                \* lines it passed to sendLine and the exception it raised
    values_written, \* mockIO.values_written, the write log
    vals_to_read,   \* mockIO.vals_to_read, the queue of pre-seeded answers
    data_provider,  \* mockIO.data_provider: which kind of provider is set
    samples,        \* MockIoDataProvider.samples: per axis, a list of floats
    idx,            \* MockIoDataProvider.idx, the cursor
    emitted,        \* the number of sample sets FIFO reads have returned
    ret             \* the last call on the mockIO: its arguments, what the
                    \* provider answered and what the call returned or raised

netVars == <<status, state, selftest, chain, wrote, escaped, last>>
ioVars ==
    <<values_written, vals_to_read, data_provider, samples, idx, emitted, ret>>
vars ==
    <<status, state, selftest, chain, wrote, escaped, last,
      values_written, vals_to_read, data_provider, samples, idx, emitted, ret>>

\* ----------------------------------------------------------------- bounds
\* the number of connections the factory builds a protocol for
NConns == 2
\* the cursor position FIFO reads may reach
MaxIdx == 6
\* the number of values the queue and the write log may hold
MaxQueue == 2
MaxWrites == 1

\* ------------------------------------------------------------- JSON values
JNull == <<"null">>
JNum(n) == <<"num", n>>
JStr(p) == <<"str", p>>
JArr(xs) == <<"arr", xs>>
JObj(pairs) == <<"obj", pairs>>

Tag(v) == v[1]
IsObj(v) == Tag(v) = "obj"
IsArr(v) == Tag(v) = "arr"
IsStr(v) == Tag(v) = "str"

\* a string without a pipe character
S(s) == JStr(<<s>>)

Keys(v) == {v[2][i][1] : i \in 1..Len(v[2])}
HasKey(v, k) == k \in Keys(v)
\* dict[k] for a key the dict holds
Field(v, k) == LET i == CHOOSE j \in 1..Len(v[2]) : v[2][j][1] = k IN v[2][i][2]

\* dict[k] = x on the pair sequence: an existing key keeps its place
Put(pairs, k, x) ==
    IF \E i \in 1..Len(pairs) : pairs[i][1] = k
    THEN [i \in 1..Len(pairs) |-> IF pairs[i][1] = k THEN <<k, x>> ELSE pairs[i]]
    ELSE Append(pairs, <<k, x>>)

\* -------------------------------------------------------------------- text
Pipe == "|"
InvalidUtf8 == "<ff>"

\* the string contents and the numbers that occur in the texts of the model
Strings == {"name", "rate", "note", "a", "b", "zz", "x"}
Nums == {5, 100, 200}

Quote(s) == "\"" \o s \o "\""

RECURSIVE CharLen(_)
\* len(text): the number of characters
CharLen(t) == IF t = <<>> THEN 0 ELSE Len(Head(t)) + CharLen(Tail(t))

RECURSIVE SplitAcc(_, _, _, _)
SplitAcc(line, i, cur, acc) ==
    IF i > Len(line) THEN Append(acc, cur)
    ELSE IF line[i] = Pipe THEN SplitAcc(line, i + 1, <<>>, Append(acc, cur))
    ELSE SplitAcc(line, i + 1, Append(cur, line[i]), acc)

\* str.split('|'): the pipe-free tokens between the pipes, empty ones kept
Split(line) == SplitAcc(line, 1, <<>>, <<>>)

\* bytes.decode(): fails on bytes that are not UTF-8
DecodeFails(line) == \E i \in 1..Len(line) : line[i] = InvalidUtf8

\* ------------------------------------------------------------- json.dumps
RECURSIVE JoinPieces(_)
\* the characters of a string, its pieces joined by the pipes between them
JoinPieces(p) ==
    IF Len(p) = 1 THEN <<p[1]>> ELSE <<p[1], Pipe>> \o JoinPieces(Tail(p))

DumpStr(p) ==
    LET t == JoinPieces(p)
    IN  IF Len(t) = 1 THEN <<Quote(t[1])>>
        ELSE <<"\"" \o t[1]>> \o SubSeq(t, 2, Len(t) - 1) \o <<t[Len(t)] \o "\"">>

RECURSIVE Dumps(_)
RECURSIVE DumpItems(_)
RECURSIVE DumpPairs(_)
DumpItems(xs) ==
    IF xs = <<>> THEN <<>>
    ELSE IF Len(xs) = 1 THEN Dumps(xs[1])
    ELSE Dumps(xs[1]) \o <<", ">> \o DumpItems(Tail(xs))

DumpPairs(ps) ==
    IF ps = <<>> THEN <<>>
    ELSE IF Len(ps) = 1 THEN <<Quote(ps[1][1]), ": ">> \o Dumps(ps[1][2])
    ELSE <<Quote(ps[1][1]), ": ">> \o Dumps(ps[1][2]) \o <<", ">> \o DumpPairs(Tail(ps))

\* json.dumps(v) with the default separators ", " and ": "
Dumps(v) ==
    CASE Tag(v) = "null" -> <<"null">>
      [] Tag(v) = "num" -> <<ToString(v[2])>>
      [] Tag(v) = "str" -> DumpStr(v[2])
      [] Tag(v) = "arr" -> <<"[">> \o DumpItems(v[2]) \o <<"]">>
      [] Tag(v) = "obj" -> <<"{">> \o DumpPairs(v[2]) \o <<"}">>

\* ------------------------------------------------------------- json.loads
IsColon(a) == a \in {":", ": "}
IsComma(a) == a \in {",", ", "}
IsStrAtom(a) == \E s \in Strings : Quote(s) = a
StrOf(a) == CHOOSE s \in Strings : Quote(s) = a
IsNumAtom(a) == \E n \in Nums : ToString(n) = a
NumOf(a) == CHOOSE n \in Nums : ToString(n) = a

ParseFail == [ok |-> FALSE, val |-> JNull, next |-> 0]
ParseOk(v, n) == [ok |-> TRUE, val |-> v, next |-> n]

RECURSIVE ParseValue(_, _)
RECURSIVE ParseMembers(_, _, _)
RECURSIVE ParseElements(_, _, _)

\* the members of an object from position i on; a repeated key keeps its
\* first place and takes the last value, as the dict json.loads builds
ParseMembers(t, i, acc) ==
    IF i + 1 > Len(t) \/ ~IsStrAtom(t[i]) \/ ~IsColon(t[i + 1]) THEN ParseFail
    ELSE LET r == ParseValue(t, i + 2)
         IN  IF ~r.ok \/ r.next > Len(t) THEN ParseFail
             ELSE LET acc2 == Put(acc, StrOf(t[i]), r.val)
                  IN  IF t[r.next] = "}" THEN ParseOk(JObj(acc2), r.next + 1)
                      ELSE IF IsComma(t[r.next]) THEN ParseMembers(t, r.next + 1, acc2)
                      ELSE ParseFail

ParseElements(t, i, acc) ==
    LET r == ParseValue(t, i)
    IN  IF ~r.ok \/ r.next > Len(t) THEN ParseFail
        ELSE LET acc2 == Append(acc, r.val)
             IN  IF t[r.next] = "]" THEN ParseOk(JArr(acc2), r.next + 1)
                 ELSE IF IsComma(t[r.next]) THEN ParseElements(t, r.next + 1, acc2)
                 ELSE ParseFail

ParseValue(t, i) ==
    IF i > Len(t) THEN ParseFail
    ELSE IF t[i] = "{" THEN
        IF i + 1 <= Len(t) /\ t[i + 1] = "}" THEN ParseOk(JObj(<<>>), i + 2)
        ELSE ParseMembers(t, i + 1, <<>>)
    ELSE IF t[i] = "[" THEN
        IF i + 1 <= Len(t) /\ t[i + 1] = "]" THEN ParseOk(JArr(<<>>), i + 2)
        ELSE ParseElements(t, i + 1, <<>>)
    ELSE IF t[i] = "null" THEN ParseOk(JNull, i + 1)
    ELSE IF IsNumAtom(t[i]) THEN ParseOk(JNum(NumOf(t[i])), i + 1)
    ELSE IF IsStrAtom(t[i]) THEN ParseOk(S(StrOf(t[i])), i + 1)
    ELSE ParseFail

\* json.loads(text): ok is FALSE where it raises JSONDecodeError
Loads(t) ==
    LET r == ParseValue(t, 1)
    IN  IF r.ok /\ r.next = Len(t) + 1 THEN [ok |-> TRUE, val |-> r.val]
        ELSE [ok |-> FALSE, val |-> JNull]

\* ---------------------------------------------------------------- registry
\* connections are numbered in the order the model names them; 0 is Python's
\* None where a connection is expected
Conns == 1..NConns
None == 0

\* the keys of the devices dict, and their order in it
DeviceOrder == <<"a", "b">>
Devices == {DeviceOrder[i] : i \in 1..Len(DeviceOrder)}

InitState(d) == JObj(<< <<"name", S(d)>>, <<"rate", JNum(100)>> >>)
InitSelfTest(d) ==
    IF d = "a" THEN JObj(<< <<"x", JNum(5)>> >>) ELSE JArr(<<JNum(5), JNull>>)

\* the error token of qvibe.handler
ERROR == "error"

\* [d.state for d in self.devices.values()]
AllStates(st) == JArr([i \in 1..Len(DeviceOrder) |-> st[DeviceOrder[i]]])

\* the line send_device_state passes to sendLine: f"{len(y)}|{y}"
Frame(v) == LET y == Dumps(v) IN <<ToString(CharLen(y)), Pipe>> \o y

\* device_name in self.devices, for a token of the line
IsDeviceToken(tok) == Len(tok) = 1 /\ tok[1] \in Devices

\* what a handler did: the registry after it, the lines it sent, and the
\* exception it raised ("none" when it returned)
Eff(st, out, exc) == [st |-> st, out |-> out, exc |-> exc]

\* ------------------------------------------------------------------ inputs
SetA200 == JObj(<< <<"name", S("a")>>, <<"rate", JNum(200)>> >>)
SetAName == JObj(<< <<"name", S("a")>> >>)
SetB200 == JObj(<< <<"rate", JNum(200)>>, <<"name", S("b")>> >>)
SetPipe == JObj(<< <<"name", S("a")>>, <<"note", JStr(<<"x", "zz">>)>> >>)

GetLines ==
    { <<"GET">>,
      <<"GET", Pipe, "a">>,
      <<"GET", Pipe, "zz">>,
      <<"GET", Pipe, "a", Pipe, "zz">> }

SetLines ==
    { <<"SET", Pipe>> \o Dumps(SetA200),
      <<"SET", Pipe>> \o Dumps(SetAName),
      <<"SET", Pipe>> \o Dumps(SetB200),
      <<"SET", Pipe, "{", "\"name\"", ":", "\"b\"", ",", "\"name\"", ":", "\"a\"", "}">>,
      <<"SET", Pipe>> \o Dumps(SetAName) \o <<Pipe, "zz">>,
      <<"SET", Pipe>> \o Dumps(SetPipe),
      <<"SET", Pipe>> \o Dumps(JObj(<< <<"name", S("zz")>> >>)),
      <<"SET", Pipe>> \o Dumps(JObj(<< <<"rate", JNum(200)>> >>)),
      <<"SET", Pipe>> \o Dumps(JObj(<< <<"name", JArr(<<S("a")>>)>> >>)),
      <<"SET", Pipe>> \o Dumps(S("name")),
      <<"SET", Pipe>> \o Dumps(S("a")),
      <<"SET", Pipe>> \o Dumps(JNum(5)),
      <<"SET", Pipe, "{", "\"name\"">>,
      <<"SET">> }

StrLines ==
    { <<"STR", Pipe, "a">>,
      <<"STR", Pipe, "zz">>,
      <<"STR">>,
      <<"STR", Pipe, "a", Pipe, "zz">> }

OtherLines ==
    { <<>>,
      <<"get", Pipe, "a">>,
      <<"FOO", Pipe>> \o Dumps(SetA200),
      <<"GET", Pipe, InvalidUtf8>>,
      <<"SET", Pipe, InvalidUtf8>> }

\* the lines a client sends
Lines == GetLines \cup SetLines \cup StrLines \cup OtherLines

\* the batches a device's handler chain passes to handle
Batches ==
    { <<SetA200>>,
      <<JNum(5), JArr(<<JNum(5)>>)>>,
      <<S(ERROR)>>,
      <<S("x"), S(ERROR), JNull, JObj(<<>>)>>,
      <<JNull>> }

\* line.decode().split('|') and json.loads(tokens[1]) for the lines of the
\* model, each evaluated once
Tokens == [l \in Lines |-> Split(l)]
ArgTokens == {Tokens[l][2] : l \in {x \in Lines : Len(Tokens[x]) >= 2}}
LoadsOf == [t \in ArgTokens |-> Loads(t)]

\* --------------------------------------------------------- CommandProtocol
\* handle_get answering an unknown name with every device's state
HandleGetFallsBack(tokens, st) ==
    IF Len(tokens) = 1 THEN Eff(st, <<Frame(AllStates(st))>>, "none")
    ELSE IF IsDeviceToken(tokens[2]) THEN Eff(st, <<Frame(st[tokens[2][1]])>>, "none")
    ELSE Eff(st, <<Frame(AllStates(st))>>, "none")

\* handle_get taking the whole remainder of the line for the name: a line
\* with a third token names no device
HandleGetWholeRest(tokens, st) ==
    IF Len(tokens) = 1 THEN Eff(st, <<Frame(AllStates(st))>>, "none")
    ELSE IF Len(tokens) = 2 /\ IsDeviceToken(tokens[2])
    THEN Eff(st, <<Frame(st[tokens[2][1]])>>, "none")
    ELSE Eff(st, <<>>, "none")

\* tokens[i] of the Python list is tokens[i + 1] here
HandleGet(tokens, st) ==
    IF Len(tokens) = 1 THEN Eff(st, <<Frame(AllStates(st))>>, "none")
    ELSE IF IsDeviceToken(tokens[2]) THEN Eff(st, <<Frame(st[tokens[2][1]])>>, "none")
    ELSE Eff(st, <<>>, "none")

\* 'name' in target_state, and what raises when target_state is no dict:
\* a str holding 'name' or a list holding 'name' fails at ['name'], a number
\* or None fails at the in test
NameIn(v) ==
    CASE Tag(v) = "obj" -> HasKey(v, "name")
      [] Tag(v) = "str" -> \E i \in 1..Len(v[2]) : v[2][i] = "name"
      [] Tag(v) = "arr" -> \E i \in 1..Len(v[2]) : v[2][i] = S("name")
      [] OTHER -> FALSE

RECURSIVE Update(_, _)
\* dict.update on pair sequences
Update(old, new) ==
    IF new = <<>> THEN old ELSE Update(Put(old, new[1][1], new[1][2]), Tail(new))

\* handle_set giving the payload to the first device when its name is none
\* of the registry
HandleSetDefaultsDevice(tokens, st) ==
    IF Len(tokens) < 2 THEN Eff(st, <<>>, "IndexError")
    ELSE LET r == LoadsOf[tokens[2]]
             v == r.val
         IN  IF ~r.ok THEN Eff(st, <<>>, "JSONDecodeError")
             ELSE IF ~IsObj(v) THEN Eff(st, <<>>, "TypeError")
             ELSE IF ~HasKey(v, "name") THEN Eff(st, <<>>, "none")
             ELSE LET n == Field(v, "name")
                      d == IF IsStr(n) /\ IsDeviceToken(n[2]) THEN n[2][1]
                           ELSE DeviceOrder[1]
                  IN  Eff([st EXCEPT ![d] = v], <<Frame(v)>>, "none")

\* handle_set merging the payload into the state it should replace
HandleSetMerge(tokens, st) ==
    IF Len(tokens) < 2 THEN Eff(st, <<>>, "IndexError")
    ELSE LET r == LoadsOf[tokens[2]]
             v == r.val
         IN  IF ~r.ok THEN Eff(st, <<>>, "JSONDecodeError")
             ELSE IF ~IsObj(v) THEN Eff(st, <<>>, "TypeError")
             ELSE IF ~HasKey(v, "name") THEN Eff(st, <<>>, "none")
             ELSE LET n == Field(v, "name")
                  IN  IF IsStr(n) /\ IsDeviceToken(n[2])
                      THEN LET m == JObj(Update(st[n[2][1]][2], v[2]))
                           IN  Eff([st EXCEPT ![n[2][1]] = m], <<Frame(m)>>, "none")
                      ELSE Eff(st, <<>>, "none")

HandleSet(tokens, st) ==
    IF Len(tokens) < 2 THEN Eff(st, <<>>, "IndexError")
    ELSE LET r == LoadsOf[tokens[2]]
             v == r.val
         IN  IF ~r.ok THEN Eff(st, <<>>, "JSONDecodeError")
             ELSE IF Tag(v) \in {"num", "null"} THEN Eff(st, <<>>, "TypeError")
             ELSE IF ~NameIn(v) THEN Eff(st, <<>>, "none")
             ELSE IF ~IsObj(v) THEN Eff(st, <<>>, "TypeError")
             ELSE LET n == Field(v, "name")
                  IN  IF Tag(n) \in {"arr", "obj"} THEN Eff(st, <<>>, "TypeError")
                      ELSE IF IsStr(n) /\ IsDeviceToken(n[2])
                      THEN Eff([st EXCEPT ![n[2][1]] = v], <<Frame(v)>>, "none")
                      ELSE Eff(st, <<>>, "none")

\* handle_str sending through send_device_state
HandleStrFramed(tokens, st, stest) ==
    IF Len(tokens) = 2 /\ IsDeviceToken(tokens[2])
    THEN Eff(st, <<Frame(stest[tokens[2][1]])>>, "none")
    ELSE Eff(st, <<>>, "none")

HandleStr(tokens, st, stest) ==
    IF Len(tokens) = 2 /\ IsDeviceToken(tokens[2])
    THEN Eff(st, <<Dumps(stest[tokens[2][1]])>>, "none")
    ELSE Eff(st, <<>>, "none")

\* the try block of lineReceived: Command[tokens[0]] and the dispatch
Dispatch(tokens, st, stest) ==
    IF tokens[1] = <<"GET">> THEN HandleGet(tokens, st)
    ELSE IF tokens[1] = <<"SET">> THEN HandleSet(tokens, st)
    ELSE IF tokens[1] = <<"STR">> THEN HandleStr(tokens, st, stest)
    ELSE Eff(st, <<>>, "KeyError")

\* ------------------------------------------------------------ SocketHandler
RECURSIVE HandleStopsAtUnknown(_)
\* handle leaving the loop at the first item it does not know
HandleStopsAtUnknown(data) ==
    IF data = <<>> THEN <<>>
    ELSE LET datum == Head(data)
         IN  IF IsObj(datum) \/ IsArr(datum)
             THEN <<Dumps(datum)>> \o HandleStopsAtUnknown(Tail(data))
             ELSE IF datum = S(ERROR)
             THEN << <<ERROR>> >> \o HandleStopsAtUnknown(Tail(data))
             ELSE <<>>

RECURSIVE Handle(_)
\* the lines SocketHandler.handle sends for a batch
Handle(data) ==
    IF data = <<>> THEN <<>>
    ELSE LET datum == Head(data)
             line == IF IsObj(datum) THEN <<Dumps(datum)>>
                     ELSE IF IsArr(datum) THEN <<Dumps(datum)>>
                     ELSE IF datum = S(ERROR) THEN << <<ERROR>> >>
                     ELSE <<>>
         IN  line \o Handle(Tail(data))

\* every device's handler chain after accept(h) on each
AcceptAll(ch, h) == [d \in DOMAIN ch |-> h]

\* ------------------------------------------------------------ Python values
\* What the mock transport passes around: None, an int, a bytearray, a list,
\* a bytes object.  A byte is an integer in 0..255; the items of a list are
\* Python values.
PyNone == <<"None">>
PyInt(n) == <<"int", n>>
PyByteArray(bs) == <<"bytearray", bs>>
PyBytes(bs) == <<"bytes", bs>>
PyList(xs) == <<"list", xs>>

\* A sample value is a Python float.  Fin(q) is the finite float
\* q / (Quarter * 32768), so that val * 32768 is exactly q / Quarter (scaling
\* a binary float by a power of two is exact); Huge(s) is a finite float of
\* sign s so large that val * 32768 exceeds the largest double (1e308);
\* Inf(s) is the infinity of sign s; NaN is not-a-number.
Quarter == 4
Fin(q) == <<"fin", q>>
Huge(s) == <<"huge", s>>
Inf(s) == <<"inf", s>>
NaN == <<"nan">>
IsFinite(v) == v[1] \in {"fin", "huge"}

\* val * 32768 on floats: exact, or the infinity an overflowing product
\* rounds to
Times32768(v) == IF v[1] = "huge" THEN Inf(v[2]) ELSE v

\* the outcome of an expression: the value it returns, or the exception it
\* raises ("none" when it returns)
Returns(v) == [val |-> v, exc |-> "none"]
Raises(e) == [val |-> PyNone, exc |-> e]

\* int(p) for the float p, as a number: truncation toward zero, OverflowError
\* for an infinity, ValueError for a NaN
IntOf(p) ==
    CASE p[1] = "inf" -> Raises("OverflowError")
      [] p[1] = "nan" -> Raises("ValueError")
      [] OTHER -> Returns(IF p[2] >= 0 THEN p[2] \div Quarter
                          ELSE -((-p[2]) \div Quarter))

\* the registers MockIoDataProvider.provide tells apart, and one it does not
MPU6050_RA_INT_STATUS == "INT_STATUS"
MPU6050_RA_FIFO_COUNTH == "FIFO_COUNTH"
MPU6050_RA_FIFO_R_W == "FIFO_R_W"
MPU6050_RA_PWR_MGMT_1 == "PWR_MGMT_1"
Registers ==
    {MPU6050_RA_INT_STATUS, MPU6050_RA_FIFO_COUNTH, MPU6050_RA_FIFO_R_W,
     MPU6050_RA_PWR_MGMT_1}

\* the axes of a sample set, in the order provide adds them
Axes == <<"x", "y", "z">>

\* ------------------------------------------------------ MockIoDataProvider
\* convert_value: i = int(val * 32768); i if i >= 0 else 65536 + i
ConvertValue(val) ==
    LET i == IntOf(Times32768(val))
    IN  IF i.exc # "none" THEN i
        ELSE Returns(IF i.val >= 0 THEN i.val ELSE 65536 + i.val)

\* val.to_bytes(2, 'big'): OverflowError for a negative int and for one that
\* needs more than two bytes
ToBytes2(val) ==
    IF val < 0 \/ val >= 65536 THEN Raises("OverflowError")
    ELSE Returns(<<val \div 256, val % 256>>)

\* add_value: the bytes after the call, the exception that left it, and the
\* number of diagnostics it printed.  convert_value is called before the try
\* block; only to_bytes is inside it.
AddValue(bytes, key, smp, i) ==
    LET val == ConvertValue(smp[key][(i % Len(smp[key])) + 1])
    IN  IF val.exc # "none"
        THEN [bytes |-> bytes, exc |-> val.exc, diag |-> 0]
        ELSE LET b == ToBytes2(val.val)
             IN  IF b.exc = "OverflowError"
                 THEN [bytes |-> bytes \o ToBytes2(0).val,
                       exc |-> "none", diag |-> 1]
                 ELSE [bytes |-> bytes \o b.val, exc |-> "none", diag |-> 0]

\* the outcome of provide: the value returned or the exception raised, the
\* cursor afterwards and the number of diagnostics printed
Provided(val, exc, i, diag) ==
    [val |-> val, exc |-> exc, idx |-> i, diag |-> diag]

\* one sample set: add_value for x, y and z in turn, stopping at the first
\* that raises
RECURSIVE AddSet(_, _, _, _, _)
AddSet(bytes, a, smp, i, diag) ==
    IF a > Len(Axes) THEN [bytes |-> bytes, exc |-> "none", diag |-> diag]
    ELSE LET r == AddValue(bytes, Axes[a], smp, i)
         IN  IF r.exc # "none"
             THEN [bytes |-> r.bytes, exc |-> r.exc, diag |-> diag + r.diag]
             ELSE AddSet(r.bytes, a + 1, smp, i, diag + r.diag)

\* for i in range(0, to_read): the three add_value calls, then self.idx += 1
RECURSIVE FifoLoop(_, _, _, _, _)
FifoLoop(n, bytes, smp, i, diag) ==
    IF n <= 0 THEN Provided(PyByteArray(bytes), "none", i, diag)
    ELSE LET s == AddSet(bytes, 1, smp, i, 0)
         IN  IF s.exc # "none" THEN Provided(PyNone, s.exc, i, diag + s.diag)
             ELSE FifoLoop(n - 1, s.bytes, smp, i + 1, diag + s.diag)

\* [x.to_bytes(1, 'big') for x in range(length)]
OneByteEach(length) ==
    IF length > 256 THEN Raises("OverflowError")
    ELSE Returns(PyList([x \in 1..length |-> PyBytes(<<x - 1>>)]))

\* what provide answers for the FIFO-count register when the cursor is at i:
\* "always 36 bytes"
FifoCountOfUnread(i) == PyList(<<PyInt(0), PyInt(36 - 6 * (i % 6))>>)
FifoCount(i) == PyList(<<PyInt(0), PyInt(36)>>)

\* provide(register, length=None); length is PyNone or PyInt(n), n >= 0
Provide(register, length, smp, i) ==
    CASE register = MPU6050_RA_INT_STATUS -> Provided(PyInt(1), "none", i, 0)
      [] register = MPU6050_RA_FIFO_COUNTH ->
            Provided(FifoCount(i), "none", i, 0)
      [] register = MPU6050_RA_FIFO_R_W ->
            IF length = PyNone THEN Provided(PyNone, "TypeError", i, 0)
            ELSE FifoLoop(length[2] \div 6, <<>>, smp, i, 0)
      [] OTHER ->
            IF length = PyNone THEN Provided(PyInt(0), "none", i, 0)
            ELSE LET r == OneByteEach(length[2])
                 IN  Provided(r.val, r.exc, i, 0)

\* ------------------------------------------------------------------ mockIO
\* no data provider was passed to mockIO, a function of the caller's was, or
\* the provide method of a MockIoDataProvider was
NoProvider == "None"
StubProvider == "stub"
ProvideMethod == "provide"

\* self.data_provider(register, length): a stub returns the answer the caller
\* programmed for this call (PyNone stands for the answer when no provider
\* is set and none is called)
Consult(dp, answer, register, length, smp, i) ==
    IF dp = ProvideMethod THEN Provide(register, length, smp, i)
    ELSE Provided(answer, "none", i, 0)

\* read_block and read after the provider was consulted with outcome p (or
\* was not, there being none): the value returned or the exception raised,
\* and the queue afterwards.  get_nowait raises queue.Empty on an empty queue.
GetNowait(q) ==
    IF q = <<>> THEN [val |-> PyNone, exc |-> "Empty", queue |-> q]
    ELSE [val |-> Head(q), exc |-> "none", queue |-> Tail(q)]
ReadViaTruthy(dp, p, q) ==
    IF dp # NoProvider /\ p.exc # "none"
    THEN [val |-> PyNone, exc |-> p.exc, queue |-> q]
    ELSE IF dp # NoProvider /\ p.val \notin {PyNone, PyInt(0), PyList(<<>>)}
    THEN [val |-> p.val, exc |-> "none", queue |-> q]
    ELSE GetNowait(q)
ReadVia(dp, p, q) ==
    IF dp # NoProvider /\ p.exc # "none"
    THEN [val |-> PyNone, exc |-> p.exc, queue |-> q]
    ELSE IF dp # NoProvider /\ p.val # PyNone
    THEN [val |-> p.val, exc |-> "none", queue |-> q]
    ELSE GetNowait(q)

\* --------------------------------------------------------------- IO inputs
\* the lengths read_block is called with
Lengths == {0, 6, 7, 18}

\* what the owner of a mockIO puts in vals_to_read, and writes
QueueValues == {PyInt(7), PyInt(0)}
WrittenValues == {PyInt(1)}

\* what a stub provider answers
StubAnswers == {PyNone, PyInt(0), PyInt(7), PyList(<<>>)}

\* the samples a MockIoDataProvider is built with: one list of floats per
\* axis, none empty, of different lengths.  In units of 1/32768: PlainWave
\* holds 100, -100, 0.75, -0.75, 32767 and 0; LoudWave holds 1.0, 2.0,
\* -2.5, -1.0, -2.0 and 1.5 in units of 1; the others hold one float that
\* is huge, infinite or not a number.
PlainWave ==
    [x |-> <<Fin(400), Fin(-400)>>,
     y |-> <<Fin(3), Fin(-3), Fin(131068)>>,
     z |-> <<Fin(0)>>]
LoudWave ==
    [x |-> <<Fin(131072), Fin(262144), Fin(-327680)>>,
     y |-> <<Fin(-131072), Fin(-262144)>>,
     z |-> <<Fin(196608)>>]
HugeWave ==
    [x |-> <<Fin(400), Huge(1)>>, y |-> <<Fin(0)>>, z |-> <<Fin(0)>>]
InfWave ==
    [x |-> <<Fin(400)>>, y |-> <<Fin(0), Fin(3), Inf(-1)>>, z |-> <<Fin(0)>>]
NaNWave ==
    [x |-> <<Fin(400)>>, y |-> <<Fin(0)>>, z |-> <<Fin(0), NaN>>]
Waveforms == {PlainWave, LoudWave, HugeWave, InfWave, NaNWave}

\* -------------------------------------------------------------------- Init
\* op: the operation; conn: the connection it ran on or sent to; arg: the
\* received line or the emitted batch; out: the lines it passed to that
\* connection's sendLine, in order; exc: the exception raised in it
Did(op, c, arg, out, exc) ==
    [op |-> op, conn |-> c, arg |-> arg, out |-> out, exc |-> exc]

\* which connections have been written to, after out was sent on c
Sent(w, c, out) == IF out # <<>> THEN [w EXCEPT ![c] = TRUE] ELSE w

InitNet ==
    /\ status = [c \in Conns |-> "new"]
    /\ state = [d \in Devices |-> InitState(d)]
    /\ selftest = [d \in Devices |-> InitSelfTest(d)]
    /\ chain = [d \in Devices |-> None]
    /\ wrote = [c \in Conns |-> FALSE]
    /\ escaped = [c \in Conns |-> FALSE]
    /\ last = Did("init", None, <<>>, <<>>, "none")

\* the command protocol of a process that has built no mockIO: the mock
\* transport's variables keep the values of a mockIO() nobody calls
Init ==
    /\ InitNet
    /\ values_written = <<>>
    /\ vals_to_read = <<>>
    /\ data_provider = NoProvider
    /\ samples = PlainWave
    /\ idx = 0
    /\ emitted = 0
    /\ ret = [op |-> "new"]

\* ----------------------------------------------------------------- actions
\* CommandFactory.buildProtocol: CommandProtocol(devices), whose constructor
\* calls accept(None) on every device's handler chain
BuiltChainRegisters(c, ch) == AcceptAll(ch, c)
\* what the constructor leaves registered
BuiltChain(c, ch) == AcceptAll(ch, None)

BuildProtocol(c) ==
    /\ status[c] = "new"
    /\ status' = [status EXCEPT ![c] = "built"]
    /\ chain' = BuiltChain(c, chain)
    /\ last' = Did("build", c, <<>>, <<>>, "none")
    /\ UNCHANGED <<state, selftest, wrote, escaped>>
    /\ UNCHANGED ioVars

\* connectionMade pushing the states the registry was built with
MadeOutStale(st) == <<Frame(AllStates([d \in Devices |-> InitState(d)]))>>
\* the lines connectionMade sends, and what it leaves registered
MadeOut(st) == <<Frame(AllStates(st))>>
MadeChain(c, ch) == AcceptAll(ch, c)

ConnectionMade(c) ==
    /\ status[c] = "built"
    /\ status' = [status EXCEPT ![c] = "connected"]
    /\ wrote' = Sent(wrote, c, MadeOut(state))
    /\ chain' = MadeChain(c, chain)
    /\ last' = Did("made", c, <<>>, MadeOut(state), "none")
    /\ UNCHANGED <<state, selftest, escaped>>
    /\ UNCHANGED ioVars

\* connectionLost leaving the chains as they are
LostChainKeeps(c, ch) == ch
\* what connectionLost leaves registered
LostChain(c, ch) == AcceptAll(ch, None)

ConnectionLost(c) ==
    /\ status[c] = "connected"
    /\ status' = [status EXCEPT ![c] = "closed"]
    /\ chain' = LostChain(c, chain)
    /\ last' = Did("lost", c, <<>>, <<>>, "none")
    /\ UNCHANGED <<state, selftest, wrote, escaped>>
    /\ UNCHANGED ioVars

\* lineReceived.  line.decode() stands before the try block: when it fails
\* the UnicodeDecodeError leaves lineReceived, and the reactor that called
\* dataReceived logs it and drops the connection, which runs connectionLost.
\* Everything raised inside the try block is caught and logged.
LineReceived(c, line) ==
    /\ status[c] = "connected"
    /\ IF DecodeFails(line)
       THEN /\ escaped' = [escaped EXCEPT ![c] = TRUE]
            /\ status' = [status EXCEPT ![c] = "closed"]
            /\ chain' = LostChain(c, chain)
            /\ last' = Did("line", c, line, <<>>, "UnicodeDecodeError")
            /\ UNCHANGED <<state, wrote>>
       ELSE LET e == Dispatch(Tokens[line], state, selftest)
            IN  /\ state' = e.st
                /\ wrote' = Sent(wrote, c, e.out)
                /\ last' = Did("line", c, line, e.out, e.exc)
                /\ UNCHANGED <<status, chain, escaped>>
    /\ UNCHANGED selftest
    /\ UNCHANGED ioVars

\* a device's handler chain passes a batch to the SocketHandler registered
\* with it, which forwards it to its connection
HandlerEmit(d, data) ==
    /\ chain[d] # None
    /\ wrote' = Sent(wrote, chain[d], Handle(data))
    /\ last' = Did("emit", chain[d], data, Handle(data), "none")
    /\ UNCHANGED <<status, state, selftest, chain, escaped>>
    /\ UNCHANGED ioVars

Next ==
    \/ \E c \in Conns : BuildProtocol(c)
    \/ \E c \in Conns : ConnectionMade(c)
    \/ \E c \in Conns : ConnectionLost(c)
    \/ \E c \in Conns : \E line \in Lines : LineReceived(c, line)
    \/ \E d \in Devices : \E data \in Batches : HandlerEmit(d, data)

Spec == Init /\ [][Next]_vars

\* ------------------------------------------------- mockIO: Init and actions
\* op: the call; register, length: its arguments (length PyNone for read);
\* consulted: a data provider was called; answer: what it returned (PyNone
\* when it raised or was not called); val, exc: what the call returned or
\* raised; diag: the diagnostics printed during it
IoDid(op, register, length, consulted, answer, val, exc, diag) ==
    [op |-> op, register |-> register, length |-> length,
     consulted |-> consulted, answer |-> answer, val |-> val, exc |-> exc,
     diag |-> diag]

\* the sample sets in what a call returned: 6 bytes each in the block of a
\* FIFO read answered by provide
SetsReturned(dp, register, r) ==
    IF dp = ProvideMethod /\ register = MPU6050_RA_FIFO_R_W /\ r.exc = "none"
    THEN Len(r.val[2]) \div 6 ELSE 0

\* mockIO(data_provider), data_provider being None, a stub or the provide
\* method of MockIoDataProvider(samples)
InitIo ==
    /\ InitNet
    /\ values_written = <<>>
    /\ vals_to_read = <<>>
    /\ data_provider \in {NoProvider, StubProvider, ProvideMethod}
    /\ samples \in Waveforms
    /\ data_provider # ProvideMethod => samples = PlainWave
    /\ idx = 0
    /\ emitted = 0
    /\ ret = IoDid("new", "", PyNone, FALSE, PyNone, PyNone, "none", 0)

\* mockIO.write
Write(register, val) ==
    /\ Len(values_written) < MaxWrites
    /\ values_written' = Append(values_written, <<PyInt(104), register, val>>)
    /\ ret' = IoDid("write", register, PyNone, FALSE, PyNone, PyNone, "none", 0)
    /\ UNCHANGED <<vals_to_read, data_provider, samples, idx, emitted>>
    /\ UNCHANGED netVars

\* the owner of the mockIO seeds the queue: vals_to_read.put(v)
QueuePut(v) ==
    /\ Len(vals_to_read) < MaxQueue
    /\ vals_to_read' = Append(vals_to_read, v)
    /\ ret' = IoDid("put", "", PyNone, FALSE, PyNone, v, "none", 0)
    /\ UNCHANGED <<values_written, data_provider, samples, idx, emitted>>
    /\ UNCHANGED netVars

\* read_block(i2c_address, register, length)
ReadBlock(register, length, answer) ==
    /\ data_provider = StubProvider \/ answer = PyNone
    /\ LET p == Consult(data_provider, answer, register, PyInt(length),
                        samples, idx)
           r == ReadVia(data_provider, p, vals_to_read)
       IN  /\ p.idx <= MaxIdx
           /\ idx' = p.idx
           /\ vals_to_read' = r.queue
           /\ emitted' = emitted + SetsReturned(data_provider, register, r)
           /\ ret' = IoDid("read_block", register, PyInt(length),
                           data_provider # NoProvider, p.val, r.val, r.exc,
                           p.diag)
    /\ UNCHANGED <<values_written, data_provider, samples>>
    /\ UNCHANGED netVars

\* read(i2c_address, register), which passes no length to the provider
Read(register, answer) ==
    /\ data_provider = StubProvider \/ answer = PyNone
    /\ LET p == Consult(data_provider, answer, register, PyNone, samples, idx)
           r == ReadVia(data_provider, p, vals_to_read)
       IN  /\ p.idx <= MaxIdx
           /\ idx' = p.idx
           /\ vals_to_read' = r.queue
           /\ emitted' = emitted + SetsReturned(data_provider, register, r)
           /\ ret' = IoDid("read", register, PyNone,
                           data_provider # NoProvider, p.val, r.val, r.exc,
                           p.diag)
    /\ UNCHANGED <<values_written, data_provider, samples>>
    /\ UNCHANGED netVars

NextIo ==
    \/ \E v \in WrittenValues : Write(MPU6050_RA_PWR_MGMT_1, v)
    \/ \E v \in QueueValues : QueuePut(v)
    \/ \E r \in Registers : \E n \in Lengths : \E a \in StubAnswers :
            ReadBlock(r, n, a)
    \/ \E r \in Registers : \E a \in StubAnswers : Read(r, a)

SpecIo == InitIo /\ [][NextIo]_vars

\* ------------------------------------------------------------- properties
\* line is the frame "<len>|<json>" of the value v: the number of characters
\* of json.dumps(v), a pipe, and json.dumps(v)
Carries(line, v) ==
    LET y == Dumps(v)
    IN  /\ Len(line) = Len(y) + 2
        /\ line[1] = ToString(CharLen(y))
        /\ line[2] = Pipe
        /\ SubSeq(line, 3, Len(line)) = y

\* the text after the first pipe of a line that starts "<cmd>|"
StartsWith(line, cmd) == Len(line) >= 2 /\ line[1] = cmd /\ line[2] = Pipe
Rest(line) == SubSeq(line, 3, Len(line))
HasPipe(t) == \E i \in 1..Len(t) : t[i] = Pipe

\* v is a JSON object whose name field is a key of the registry
NamesDevice(v) ==
    /\ IsObj(v)
    /\ HasKey(v, "name")
    /\ \E d \in Devices : Field(v, "name") = S(d)
DeviceNamed(v) == CHOOSE d \in Devices : Field(v, "name") = S(d)

\* C1: the first line sent on a connection is sent by its connectionMade and
\* is the length-prefixed array of every device's state as it is at that
\* instant; when it is sent the connection is registered with no device's
\* handler chain, so nothing a chain emits and no command reply precedes it.
C1_FirstFrameIsConnectPush ==
    [][\A c \in Conns :
        (~wrote[c] /\ wrote'[c]) =>
            /\ last'.op = "made"
            /\ last'.conn = c
            /\ Len(last'.out) = 1
            /\ Carries(last'.out[1], AllStates(state))
            /\ \A d \in Devices : chain[d] # c]_vars

\* connection 2 connects after a SET on connection 1 has replaced a's state
C1_Witness ==
    /\ last.op = "made"
    /\ last.conn = 2
    /\ status[1] = "connected"
    /\ state["a"] = SetAName
    /\ Carries(last.out[1], JArr(<<SetAName, InitState("b")>>))

\* the JSON objects the clients of the model write after "SET|"
PayloadObjects == {SetA200, SetAName, SetB200, SetPipe}

\* what C2 says a SET of the object v does
SetApplied(v) ==
    LET d == DeviceNamed(v)
    IN  /\ state'[d] = v
        /\ \A e \in Devices \ {d} : state'[e] = state[e]
        /\ selftest' = selftest
        /\ Len(last'.out) = 1
        /\ Carries(last'.out[1], v)

\* C2 as stated: for every line "SET|<json>" whose <json> is the text of a
\* JSON object naming a device, the device's state becomes that object, no
\* other state and no self test result changes, and one frame with the new
\* state is sent on the connection.
C2_AnyObjectText ==
    [][\A v \in PayloadObjects :
        (/\ last'.op = "line"
         /\ last'.arg = <<"SET", Pipe>> \o Dumps(v)
         /\ NamesDevice(v)) => SetApplied(v)]_vars

\* C2 amended: the same for every line "SET|<json>" whose <json> holds no
\* '|' character and parses as a JSON object naming a device.
C2_PipeFreeObjectText ==
    [][(/\ last'.op = "line"
        /\ StartsWith(last'.arg, "SET")
        /\ ~HasPipe(Rest(last'.arg))
        /\ LoadsOf[Rest(last'.arg)].ok
        /\ NamesDevice(LoadsOf[Rest(last'.arg)].val))
       => SetApplied(LoadsOf[Rest(last'.arg)].val)]_vars

\* SET|{"name": "a"} was applied on connection 2 after b's state was set
C2_Witness ==
    /\ last.op = "line"
    /\ last.conn = 2
    /\ last.arg = <<"SET", Pipe>> \o Dumps(SetAName)
    /\ state["a"] = SetAName
    /\ state["b"] = SetB200
    /\ last.out = <<Frame(SetAName)>>

\* the line is a SET line and its payload, token 1, is missing, is not JSON
\* or is no JSON object naming a device
BadSet(line) ==
    LET t == Tokens[line]
    IN  /\ t[1] = <<"SET">>
        /\ \/ Len(t) < 2
           \/ ~LoadsOf[t[2]].ok
           \/ ~NamesDevice(LoadsOf[t[2]].val)

\* C3 as stated: a SET line whose payload has no name field, names no device
\* of the registry, is missing or does not parse as JSON sends nothing,
\* changes no state and leaves the connection connected.
C3_BadSetIsIgnored ==
    [][(last'.op = "line" /\ BadSet(last'.arg)) =>
        /\ last'.out = <<>>
        /\ state' = state
        /\ status'[last'.conn] = "connected"]_vars

\* C3 for the lines that decode as UTF-8 (it is the line that does not that
\* refutes C3_BadSetIsIgnored).
C3_DecodableBadSetIsIgnored ==
    [][(last'.op = "line" /\ BadSet(last'.arg) /\ ~DecodeFails(last'.arg)) =>
        /\ last'.out = <<>>
        /\ state' = state
        /\ status'[last'.conn] = "connected"
        /\ ~escaped'[last'.conn]]_vars

\* what C4 says of a line, the name after "GET|" being known or not
GetAnswered(line, unknown) ==
    /\ line = <<"GET">> =>
          Len(last'.out) = 1 /\ Carries(last'.out[1], AllStates(state))
    /\ \A d \in Devices : line = <<"GET", Pipe, d>> =>
          Len(last'.out) = 1 /\ Carries(last'.out[1], state[d])
    /\ (StartsWith(line, "GET") /\ unknown) => last'.out = <<>>
    /\ (line = <<"GET">> \/ StartsWith(line, "GET")) => state' = state

\* C4 as stated: GET alone sends one frame with the array of all states in
\* registry order, GET|<name> one frame with that device's state when <name>
\* is a key of the registry and nothing when it is not; no state changes.
C4_GetAnyName ==
    [][last'.op = "line" =>
        GetAnswered(last'.arg,
                    \A d \in Devices : Rest(last'.arg) # <<d>>)]_vars

\* C4 amended: the same, the unknown names being those that hold no '|'.
C4_GetPipeFreeName ==
    [][last'.op = "line" =>
        GetAnswered(last'.arg,
                    /\ ~HasPipe(Rest(last'.arg))
                    /\ \A d \in Devices : Rest(last'.arg) # <<d>>)]_vars

\* GET|a on connection 2 answers with the state an earlier SET gave a
C4_Witness ==
    /\ last.op = "line"
    /\ last.conn = 2
    /\ last.arg = <<"GET", Pipe, "a">>
    /\ state["a"] = SetA200
    /\ Len(last.out) = 1
    /\ Carries(last.out[1], SetA200)

\* the line is an accepted SET: it decodes, token 0 is SET and token 1
\* parses as a JSON object naming a device, its payload
AcceptedSet(line) ==
    /\ ~DecodeFails(line)
    /\ Tokens[line][1] = <<"SET">>
    /\ Len(Tokens[line]) >= 2
    /\ LoadsOf[Tokens[line][2]].ok
    /\ NamesDevice(LoadsOf[Tokens[line][2]].val)
PayloadOf(line) == LoadsOf[Tokens[line][2]].val

\* C5: a device's state changes only in an accepted SET naming it, to
\* exactly that SET's payload, and every accepted SET does so, whichever
\* connection it comes from; and every state frame (connect push, GET,
\* GET|d, SET echo) carries the registry's states as they are when it is
\* sent.  So a frame shows for each device the payload of the latest
\* accepted SET naming it, or its initial state, and never a mixture.
C5_FramesCarryLatestSet ==
    [][/\ \A d \in Devices : state'[d] # state[d] =>
            /\ last'.op = "line"
            /\ AcceptedSet(last'.arg)
            /\ PayloadOf(last'.arg) = state'[d]
            /\ DeviceNamed(state'[d]) = d
       /\ (last'.op = "line" /\ AcceptedSet(last'.arg)) =>
            state'[DeviceNamed(PayloadOf(last'.arg))] = PayloadOf(last'.arg)
       /\ last'.op = "made" =>
            Len(last'.out) = 1 /\ Carries(last'.out[1], AllStates(state'))
       /\ (/\ last'.op = "line"
           /\ last'.out # <<>>
           /\ last'.arg[1] \in {"GET", "SET"}) =>
            /\ Len(last'.out) = 1
            /\ \/ Carries(last'.out[1], AllStates(state'))
               \/ \E d \in Devices : Carries(last'.out[1], state'[d])]_vars

\* GET on connection 1 after both devices were set and connection 2 closed
C5_Witness ==
    /\ last.op = "line"
    /\ last.conn = 1
    /\ last.arg = <<"GET">>
    /\ status[2] = "closed"
    /\ Carries(last.out[1], JArr(<<SetAName, SetB200>>))

\* C6 as stated: a connected connection is registered with every device's
\* handler chain until its own connectionLost.
C6_RegisteredWhileConnected ==
    \A c \in Conns : status[c] = "connected" => \A d \in Devices : chain[d] = c

\* C7 as stated: no failure leaves lineReceived and the connection stays
\* connected, whatever the line; a line whose token 0 is not GET, SET or STR
\* sends nothing and changes no state.
C7_NoLineFails ==
    [][last'.op = "line" =>
        /\ ~escaped'[last'.conn]
        /\ status'[last'.conn] = "connected"
        /\ Tokens[last'.arg][1] \notin {<<"GET">>, <<"SET">>, <<"STR">>} =>
              last'.out = <<>> /\ state' = state]_vars

\* C7 for the lines that decode as UTF-8.
C7_NoDecodableLineFails ==
    [][(last'.op = "line" /\ ~DecodeFails(last'.arg)) =>
        /\ ~escaped'[last'.conn]
        /\ status'[last'.conn] = "connected"
        /\ Tokens[last'.arg][1] \notin {<<"GET">>, <<"SET">>, <<"STR">>} =>
              last'.out = <<>> /\ state' = state]_vars

\* C8: the registry keeps its keys, and every device's state is a JSON
\* object whose name field is the key the device is stored under.
C8_KeysAndNames ==
    /\ DOMAIN state = Devices
    /\ \A d \in Devices :
        IsObj(state[d]) /\ HasKey(state[d], "name") /\ Field(state[d], "name") = S(d)

\* a SET whose text names b and then a was applied, to a
C8_Witness ==
    /\ last.op = "line"
    /\ last.arg = <<"SET", Pipe, "{", "\"name\"", ":", "\"b\"", ",", "\"name\"", ":", "\"a\"", "}">>
    /\ state["a"] = SetAName
    /\ state["b"] = SetB200

\* C9: STR|<name> sends the JSON of the device's self test results as one
\* line without a length prefix when <name> is a key of the registry, and
\* nothing when it is not; no state changes.
C9_SelfTestReply ==
    [][(last'.op = "line" /\ StartsWith(last'.arg, "STR")) =>
        /\ \A d \in Devices : Rest(last'.arg) = <<d>> =>
              /\ last'.out = <<Dumps(selftest[d])>>
              /\ ~Carries(last'.out[1], selftest[d])
        /\ (\A d \in Devices : Rest(last'.arg) # <<d>>) => last'.out = <<>>
        /\ state' = state]_vars

\* STR|a answered on connection 2
C9_Witness ==
    /\ last.op = "line"
    /\ last.conn = 2
    /\ last.arg = <<"STR", Pipe, "a">>
    /\ last.out = << <<"{", "\"x\"", ": ", "5", "}">> >>

\* an item handle forwards, and the line it sends for it
Forwarded(x) == IsObj(x) \/ IsArr(x) \/ x = S(ERROR)
LineFor(x) == IF x = S(ERROR) THEN <<ERROR>> ELSE Dumps(x)

\* C10: the lines handle sends for a batch are, in batch order, one line for
\* each item that is a JSON object, a JSON array or the error token; any
\* other item sends nothing and the items after it are still forwarded.
C10_BatchForwarded ==
    last.op = "emit" =>
        LET f == SelectSeq(last.arg, Forwarded)
        IN  last.out = [i \in 1..Len(f) |-> LineFor(f[i])]

\* a batch with a string and a null around the error token and an object
C10_Witness ==
    /\ last.op = "emit"
    /\ last.arg = <<S("x"), S(ERROR), JNull, JObj(<<>>)>>
    /\ last.out = << <<"error">>, <<"{", "}">> >>

\* ------------------------------------------------- properties of the mockIO
\* the call that produced the next state is a read or a read_block
IsRead(r) == r.op \in {"read", "read_block"}
\* the provider was not called, or it returned None
NoAnswer(r) == ~r.consulted \/ (r.answer = PyNone /\ r.exc \in {"none", "Empty"})

ByteCount(v) == IF v[1] \in {"bytearray", "list"} THEN Len(v[2]) ELSE 1

\* a read_block answered by MockIoDataProvider.provide
ProvidedBlock(r) == r.op = "read_block" /\ data_provider = ProvideMethod

\* C12 as stated: read_block on a mockIO whose provider is provide returns
\* exactly length bytes, whatever the register and the length.
C12_BlockHasLength ==
    ProvidedBlock(ret) =>
        /\ ret.exc = "none"
        /\ ret.val[1] \in {"bytearray", "list"}
        /\ ByteCount(ret.val) = ret.length[2]

\* the two bytes of the 16-bit value a sample is emitted as, high byte first;
\* 0 when the converted value does not fit two bytes
Wire16(v) ==
    LET n == ConvertValue(v).val
    IN  IF n >= 0 /\ n < 65536 THEN <<n \div 256, n % 256>> ELSE <<0, 0>>

\* sample set k of the waveform: x, then y, then z, each at k modulo the
\* length of its own list
SampleAt(smp, a, k) == smp[a][(k % Len(smp[a])) + 1]
SetAt(smp, k) ==
    Wire16(SampleAt(smp, "x", k)) \o Wire16(SampleAt(smp, "y", k))
        \o Wire16(SampleAt(smp, "z", k))

\* sample sets i .. i + n - 1, 6 bytes each
SetsFrom(smp, i, n) ==
    [b \in 1..(6 * n) |-> SetAt(smp, i + ((b - 1) \div 6))[((b - 1) % 6) + 1]]

\* a FIFO-data read_block answered by provide with a length that is a
\* multiple of 6
FifoRead(r) ==
    /\ ProvidedBlock(r)
    /\ r.register = MPU6050_RA_FIFO_R_W
    /\ r.length[2] % 6 = 0

\* what C13 says of such a read from cursor i
SetsRead(r, i, j) ==
    /\ r.exc = "none"
    /\ r.val = PyByteArray(SetsFrom(samples, i, r.length[2] \div 6))
    /\ Len(r.val[2]) = r.length[2]
    /\ j = i + (r.length[2] \div 6)

\* every sample of the waveform converts to an int
Convertible(smp) ==
    \A a \in {"x", "y", "z"} : \A k \in 1..Len(smp[a]) : smp[a][k][1] = "fin"

\* C13 as stated: a FIFO-data read of a length that is a multiple of 6
\* returns length/6 sample sets in waveform order, each the big-endian
\* 16-bit x, y and z values, and advances the cursor by length/6, from
\* whatever cursor position it starts.
C13_FifoReadReturnsSets ==
    [][FifoRead(ret') => SetsRead(ret', idx, idx')]_vars

\* C13 for the waveforms all of whose samples convert to an int (it is a
\* sample that does not, C14 and C16, that refutes C13_FifoReadReturnsSets).
C13_ConvertibleFifoReadReturnsSets ==
    [][(FifoRead(ret') /\ Convertible(samples)) =>
            SetsRead(ret', idx, idx')]_vars

\* |v| >= 1.0, and |v| so large that int(v * 32768) does not fit 16 bits
\* as convert_value wraps it: v >= 2.0 or v < -2.0
Loud(v) ==
    \/ v[1] \in {"huge", "inf"}
    \/ v[1] = "fin" /\ (v[2] >= Quarter * 32768 \/ v[2] <= -(Quarter * 32768))
BeyondTwo(v) ==
    v[1] = "fin" /\ (v[2] >= Quarter * 65536 \/ v[2] <= -(Quarter * 65537))
Is(which, v) == IF which = "loud" THEN Loud(v) ELSE BeyondTwo(v)

\* the samples a FIFO read of n sets from cursor i reads: <<set, axis>>
\* positions, and those of them whose sample is loud, or beyond two
Positions(n) == (0..(n - 1)) \X (1..3)
PositionsWhere(which, i, n) ==
    {p \in Positions(n) : Is(which, SampleAt(samples, Axes[p[2]], i + p[1]))}

\* the two bytes the block holds for position p
BytesAt(block, p) ==
    <<block[6 * p[1] + 2 * p[2] - 1], block[6 * p[1] + 2 * p[2]]>>

\* a FIFO read emits 0 for every such sample it reads, prints one diagnostic
\* for each of them and no other, and does not fail when it reads one
ZeroedWithDiagnostic(which, r, i) ==
    LET n == r.length[2] \div 6
        hit == PositionsWhere(which, i, n)
    IN  /\ hit # {} => r.exc = "none"
        /\ r.exc = "none" =>
              /\ \A p \in hit : BytesAt(r.val[2], p) = <<0, 0>>
              /\ r.diag = Cardinality(hit)

\* C14 as stated: the 16-bit value a FIFO-data read emits for a sample v
\* with |v| >= 1.0 is 0, a diagnostic is printed for it, and the read does
\* not fail with an exception.
C14_LoudSamplesAreZeroed ==
    [][FifoRead(ret') => ZeroedWithDiagnostic("loud", ret', idx)]_vars

\* what the code does instead, for waveforms of finite floats whose product
\* with 32768 is finite: 0 and a diagnostic for v >= 2.0 and for v < -2.0.
C14_SamplesBeyondTwoAreZeroed ==
    [][(FifoRead(ret') /\ Convertible(samples)) =>
            ZeroedWithDiagnostic("beyond two", ret', idx)]_vars

\* q / Quarter rounded to the nearest integer (no sample of the model lies
\* half way between two integers), and truncated toward zero
Nearest(q) == (2 * q + Quarter) \div (2 * Quarter)
Truncated(q) == IF q >= 0 THEN q \div Quarter ELSE -((-q) \div Quarter)
\* i if i >= 0 else 65536 + i
Wrapped(i) == IF i >= 0 THEN i ELSE 65536 + i
Converted(how, q) == IF how = "round" THEN Nearest(q) ELSE Truncated(q)

\* the bytes a FIFO read returned are, for every finite sample it read whose
\* value under the conversion ("round" or "int") fits 16 bits, that value,
\* high byte first
EmitsConverted(how, r, i) ==
    r.exc = "none" =>
        \A p \in Positions(r.length[2] \div 6) :
            LET v == SampleAt(samples, Axes[p[2]], i + p[1])
                n == Wrapped(Converted(how, v[2]))
            IN  (v[1] = "fin" /\ n >= 0 /\ n < 65536) =>
                    BytesAt(r.val[2], p) = <<n \div 256, n % 256>>

\* C15 as stated: convert_value(v) is round(v * 32768), wrapped by 65536
\* when negative; so a FIFO-data read emits that value for v.
C15_ConvertRounds ==
    [][FifoRead(ret') => EmitsConverted("round", ret', idx)]_vars

\* what the code does instead: int(v * 32768), which truncates toward zero.
C15_ConvertTruncates ==
    [][FifoRead(ret') => EmitsConverted("int", ret', idx)]_vars

\* every sample of the waveform is a finite float
FiniteWave(smp) ==
    \A a \in {"x", "y", "z"} : \A k \in 1..Len(smp[a]) : IsFinite(smp[a][k])

\* a FIFO read returned a block of 6 bytes for each set it was asked for,
\* every two of them a 16-bit value, and advanced the cursor by as many
WholeSets(r, i, j) ==
    /\ r.exc = "none"
    /\ r.val[1] = "bytearray"
    /\ Len(r.val[2]) = 6 * (r.length[2] \div 6)
    /\ \A b \in 1..Len(r.val[2]) : r.val[2][b] \in 0..255
    /\ j - i = r.length[2] \div 6

\* C16 as stated: with finite samples add_value appends two bytes, a value
\* in 0..65535, for each sample, and no FIFO-data read fails because of the
\* magnitude of a sample, so a FIFO block has 6 bytes per sample set.
C16_FiniteSamplesFit ==
    [][(FifoRead(ret') /\ FiniteWave(samples)) =>
            WholeSets(ret', idx, idx')]_vars

\* C16 for the finite samples whose product with 32768 is finite too.
C16_FiniteProductsFit ==
    [][(FifoRead(ret') /\ Convertible(samples)) =>
            WholeSets(ret', idx, idx')]_vars

\* C17: whatever was read before, provide answers a read of the FIFO-count
\* register with the two bytes 0x00 0x24 (36) and a read of the status
\* register with the data-ready byte 0x01, through read and through
\* read_block alike, and neither moves the cursor.
C17_CountAndStatusAreFixed ==
    [][(IsRead(ret') /\ data_provider = ProvideMethod) =>
        /\ ret'.register = MPU6050_RA_FIFO_COUNTH =>
              /\ ret'.exc = "none"
              /\ ret'.val = PyList(<<PyInt(0), PyInt(36)>>)
              /\ idx' = idx
        /\ ret'.register = MPU6050_RA_INT_STATUS =>
              /\ ret'.exc = "none"
              /\ ret'.val = PyInt(1)
              /\ idx' = idx]_vars

\* the FIFO-count register was read after FIFO-data reads returned 4 sample
\* sets and the queue was seeded
C17_Witness ==
    /\ data_provider = ProvideMethod
    /\ ret.op = "read_block"
    /\ ret.register = MPU6050_RA_FIFO_COUNTH
    /\ ret.val = PyList(<<PyInt(0), PyInt(36)>>)
    /\ idx = 4
    /\ emitted = 4
    /\ vals_to_read # <<>>

\* what C18 says of a step: the cursor does not decrease, it is the number
\* of sample sets emitted so far, it moves only in a FIFO-data read_block,
\* and the sets such a read returns are the next ones of the waveform,
\* sets number emitted, emitted + 1, ..., each axis at the set's number
\* modulo the length of its own list
CursorCountsSets ==
    /\ idx' >= idx
    /\ idx' = emitted'
    /\ idx' # idx =>
          ret'.op = "read_block" /\ ret'.register = MPU6050_RA_FIFO_R_W
    /\ (ProvidedBlock(ret') /\ ret'.register = MPU6050_RA_FIFO_R_W
            /\ ret'.exc = "none") =>
          ret'.val[2] = SetsFrom(samples, emitted, emitted' - emitted)

\* C18 as stated: the cursor starts at 0, never decreases and advances by
\* exactly 1 per emitted sample set, in FIFO-data reads only; the k-th set
\* emitted since construction carries waveform[a][k mod len(waveform[a])]
\* for each axis a.
C18_CursorCountsEmittedSets ==
    [][CursorCountsSets]_vars

\* C18 for the waveforms all of whose samples convert to an int (a FIFO read
\* that fails on a sample, C14 and C16, has moved the cursor past the sets
\* it built and returned none of them).
C18_ConvertibleCursorCountsSets ==
    [][Convertible(samples) => CursorCountsSets]_vars

\* ------------------------------------ properties of the command protocol, 2
\* the text of a line between its first '|' and its second, or its end
FirstPipe(t) ==
    IF HasPipe(t)
    THEN CHOOSE i \in 1..Len(t) : t[i] = Pipe /\ \A j \in 1..(i - 1) : t[j] # Pipe
    ELSE Len(t) + 1
ArgOf(line) == SubSeq(Rest(line), 1, FirstPipe(Rest(line)) - 1)

\* C19 as stated: the argument is the whole remainder of the line after the
\* first '|'.  SET|j applies and echoes j for every JSON object text j that
\* names a device, '|' inside its strings or not; GET and STR answer only
\* when the whole remainder is the name of a device.
C19_ArgumentIsRemainder ==
    [][last'.op = "line" =>
        /\ \A v \in PayloadObjects :
              (last'.arg = <<"SET", Pipe>> \o Dumps(v) /\ NamesDevice(v)) =>
                  /\ state'[DeviceNamed(v)] = v
                  /\ last'.out = <<Frame(v)>>
        /\ (StartsWith(last'.arg, "GET") \/ StartsWith(last'.arg, "STR")) =>
              (last'.out # <<>> => \E d \in Devices : Rest(last'.arg) = <<d>>)]_vars

\* C19 amended: the argument is the text between the first '|' and the
\* second.  SET applies and echoes that text when it parses as a JSON object
\* naming a device, whatever follows the second '|', and else does nothing;
\* GET answers with the state of the device that text names, whatever
\* follows, and else with nothing; STR answers only when that text names a
\* device and nothing follows it.  GET and STR change no state.
C19_ArgumentIsSecondToken ==
    [][last'.op = "line" =>
        LET line == last'.arg
            a == ArgOf(line)
        IN  /\ StartsWith(line, "SET") =>
                  IF LoadsOf[a].ok /\ NamesDevice(LoadsOf[a].val)
                  THEN /\ state'[DeviceNamed(LoadsOf[a].val)] = LoadsOf[a].val
                       /\ last'.out = <<Frame(LoadsOf[a].val)>>
                  ELSE last'.out = <<>> /\ state' = state
            /\ StartsWith(line, "GET") =>
                  /\ \A d \in Devices : a = <<d>> =>
                        last'.out = <<Frame(state[d])>>
                  /\ (\A d \in Devices : a # <<d>>) => last'.out = <<>>
                  /\ state' = state
            /\ StartsWith(line, "STR") =>
                  /\ \A d \in Devices :
                        (a = <<d>> /\ ~HasPipe(Rest(line))) =>
                            last'.out = <<Dumps(selftest[d])>>
                  /\ ((\A d \in Devices : a # <<d>>) \/ HasPipe(Rest(line))) =>
                        last'.out = <<>>
                  /\ state' = state]_vars

\* a SET whose JSON text is followed by a third token was applied to a and
\* echoed on connection 2
C19_Witness ==
    /\ last.op = "line"
    /\ last.conn = 2
    /\ last.arg = <<"SET", Pipe>> \o Dumps(SetAName) \o <<Pipe, "zz">>
    /\ state["a"] = SetAName
    /\ last.out = <<Frame(SetAName)>>

\* C20: once connectionLost has run for a connection no device's handler
\* chain holds its SocketHandler, and what a chain emits is sent on a
\* connection that is connected, never on a closed one.
C20_ClosedIsDeregistered ==
    /\ \A c \in Conns : status[c] = "closed" => \A d \in Devices : chain[d] # c
    /\ last.op = "emit" => status[last.conn] = "connected"

\* a chain emitted on connection 2 after connection 1, which had been sent
\* its states, was lost
C20_Witness ==
    /\ last.op = "emit"
    /\ last.conn = 2
    /\ last.out # <<>>
    /\ status[1] = "closed"
    /\ wrote[1]
    /\ ~escaped[1]

====
